---- MODULE Spec2Model ----
(***************************************************************************)
(* sktime/markov/tools/setup.py: configuration(parent_package, top_path).  *)
(*                                                                         *)
(* The function is modelled statement by statement.  Python objects live   *)
(* in a heap and are held by reference, so that sharing between calls is   *)
(* something the model can express.  numpy.distutils is an external        *)
(* library: Configuration, add_subpackage and add_extension are modelled   *)
(* as recording their arguments on the descriptor, and each may raise.     *)
(*                                                                         *)
(* A Python str that is used as a path is a sequence of tokens: "/" the    *)
(* separator, "." a dot, and any other token a run of ordinary characters  *)
(* ("a", "sktime").  Paths are POSIX paths (pathlib.PurePosixPath).        *)
(***************************************************************************)
EXTENDS Naturals, Sequences, FiniteSets

VARIABLES pc, parent_package, top_path, config, heap, calls

vars == <<pc, parent_package, top_path, config, heap, calls>>

\* Bounds of the model.
MaxCalls == 2
MaxLen == 3

-----------------------------------------------------------------------------
\* Python values

None == [type |-> "NoneType", chars |-> <<>>]
Str(s) == [type |-> "str", chars |-> s]
NoRef == 0

Tokens == {"/", ".", "a"}

RECURSIVE SeqsUpTo(_, _)
SeqsUpTo(S, n) ==
  IF n = 0 THEN {<<>>}
  ELSE LET shorter == SeqsUpTo(S, n - 1)
       IN shorter \cup {Append(s, x) : s \in {t \in shorter : Len(t) = n - 1}, x \in S}

\* parent_package values a parent setup.py passes: the default '' and a dotted name
ParentPackages == {"", "sktime.markov"}

\* top_path values of the call-level specification: the default None, the empty
\* str, a relative and an absolute path
TopPaths == {None, Str(<<>>), Str(<<"a">>), Str(<<"/", "a">>)}

\* top_path values of the path-level specification: None and every str of at most
\* MaxLen tokens
AllTopPaths == {None} \cup {Str(s) : s \in SeqsUpTo(Tokens, MaxLen)}

-----------------------------------------------------------------------------
\* pathlib: Path(str) and Path / str

RECURSIVE SplitFrom(_, _, _)
SplitFrom(s, i, cur) ==
  IF i > Len(s) THEN <<cur>>
  ELSE IF s[i] = "/" THEN <<cur>> \o SplitFrom(s, i + 1, <<>>)
  ELSE SplitFrom(s, i + 1, Append(cur, s[i]))

IsKeptPart(p) == p # <<>> /\ p # <<".">>

ParseParts(s) == SelectSeq(SplitFrom(s, 1, <<>>), IsKeptPart)

ParseRoot(s) ==
  IF Len(s) >= 1 /\ s[1] = "/"
  THEN IF Len(s) >= 2 /\ s[2] = "/" /\ ~(Len(s) >= 3 /\ s[3] = "/")
       THEN "//" ELSE "/"
  ELSE ""

\* Path(x) for a str x (Path(None) raises TypeError: see PathTypeError)
Path(x) == [root |-> ParseRoot(x.chars), parts |-> ParseParts(x.chars)]

\* p / seg
TrueDiv(p, seg) ==
  LET q == Path(seg)
  IN IF q.root # "" THEN q
     ELSE [root |-> p.root, parts |-> p.parts \o q.parts]

-----------------------------------------------------------------------------
\* numpy.distutils.misc_util.Configuration, as far as configuration() uses it

\* faulty variant: the registration lists are shared between instances (a class-level list)
ConfigurationSharedLists(package_name, parent_name, tp) ==
  [name |-> package_name, parent_name |-> parent_name, top_path |-> tp,
   subpackages |-> IF heap = <<>> THEN <<>> ELSE heap[Len(heap)].subpackages,
   ext_modules |-> IF heap = <<>> THEN <<>> ELSE heap[Len(heap)].ext_modules]

Configuration(package_name, parent_name, tp) ==
  [name |-> package_name, parent_name |-> parent_name, top_path |-> tp,
   subpackages |-> <<>>, ext_modules |-> <<>>]

add_subpackage(c, subpackage_name) ==
  [c EXCEPT !.subpackages = Append(@, subpackage_name)]

add_extension(c, ext_name, sources, include_dirs, language) ==
  [c EXCEPT !.ext_modules =
     Append(@, [name |-> ext_name, sources |-> sources,
                include_dirs |-> include_dirs, language |-> language])]

-----------------------------------------------------------------------------
\* configuration(): its statements, in order

Stmt(line, op, arg) == [line |-> line, op |-> op, arg |-> arg]

\* faulty variant: line 19 registers flux a second time instead of generation
BodyFluxTwice ==
  << Stmt(5, "import",         <<>>),
     Stmt(7, "Configuration",  <<>>),
     Stmt(9, "add_subpackage", <<"analysis">>),
     Stmt(10, "add_subpackage", <<"analysis", "dense">>),
     Stmt(11, "add_subpackage", <<"analysis", "sparse">>),
     Stmt(13, "add_subpackage", <<"estimation">>),
     Stmt(15, "add_subpackage", <<"flux">>),
     Stmt(16, "add_subpackage", <<"flux", "dense">>),
     Stmt(17, "add_subpackage", <<"flux", "sparse">>),
     Stmt(19, "add_subpackage", <<"flux">>),
     Stmt(21, "add_extension",  <<>>),
     Stmt(26, "return",         <<>>) >>

\* faulty variant: line 13 registers estimation.dense instead of estimation
BodyNestedEstimation ==
  << Stmt(5, "import",         <<>>),
     Stmt(7, "Configuration",  <<>>),
     Stmt(9, "add_subpackage", <<"analysis">>),
     Stmt(10, "add_subpackage", <<"analysis", "dense">>),
     Stmt(11, "add_subpackage", <<"analysis", "sparse">>),
     Stmt(13, "add_subpackage", <<"estimation", "dense">>),
     Stmt(15, "add_subpackage", <<"flux">>),
     Stmt(16, "add_subpackage", <<"flux", "dense">>),
     Stmt(17, "add_subpackage", <<"flux", "sparse">>),
     Stmt(19, "add_subpackage", <<"generation">>),
     Stmt(21, "add_extension",  <<>>),
     Stmt(26, "return",         <<>>) >>

\* faulty variant: the extension is registered before the subpackages
BodyExtensionFirst ==
  << Stmt(5, "import",         <<>>),
     Stmt(7, "Configuration",  <<>>),
     Stmt(21, "add_extension",  <<>>),
     Stmt(9, "add_subpackage", <<"analysis">>),
     Stmt(10, "add_subpackage", <<"analysis", "dense">>),
     Stmt(11, "add_subpackage", <<"analysis", "sparse">>),
     Stmt(13, "add_subpackage", <<"estimation">>),
     Stmt(15, "add_subpackage", <<"flux">>),
     Stmt(16, "add_subpackage", <<"flux", "dense">>),
     Stmt(17, "add_subpackage", <<"flux", "sparse">>),
     Stmt(19, "add_subpackage", <<"generation">>),
     Stmt(26, "return",         <<>>) >>

Body ==
  << Stmt(5, "import",         <<>>),
     Stmt(7, "Configuration",  <<>>),
     Stmt(9, "add_subpackage", <<"analysis">>),
     Stmt(10, "add_subpackage", <<"analysis", "dense">>),
     Stmt(11, "add_subpackage", <<"analysis", "sparse">>),
     Stmt(13, "add_subpackage", <<"estimation">>),
     Stmt(15, "add_subpackage", <<"flux">>),
     Stmt(16, "add_subpackage", <<"flux", "dense">>),
     Stmt(17, "add_subpackage", <<"flux", "sparse">>),
     Stmt(19, "add_subpackage", <<"generation">>),
     Stmt(21, "add_extension",  <<>>),
     Stmt(26, "return",         <<>>) >>

\* faulty variant: top_path is not passed on, the descriptor takes the library's default
NewConfigurationNoTopPath(pp, tp) == Configuration("tools", pp, None)

\* line 7: Configuration('tools', parent_package, top_path)
NewConfiguration(pp, tp) == Configuration("tools", pp, tp)

\* faulty variant: the descriptor is a module-level object created by the first call
CachedRef == IF heap = <<>> THEN Len(heap) + 1 ELSE 1

\* line 7: the instance just created is a new object
NewRef == Len(heap) + 1

\* faulty variant: the segments src and sktime are joined in the wrong order
IncludeDirReordered(tp) ==
  TrueDiv(TrueDiv(TrueDiv(Path(tp), Str(<<"src">>)), Str(<<"sktime">>)),
          Str(<<"include">>))

\* line 23: Path(top_path) / 'sktime' / 'src' / 'include'
IncludeDir(tp) ==
  TrueDiv(TrueDiv(TrueDiv(Path(tp), Str(<<"sktime">>)), Str(<<"src">>)),
          Str(<<"include">>))

\* faulty variant: the extension is declared as a C extension
AddKahandotAsC(c, tp) ==
  add_extension(c, "kahandot", <<"kahandot/kahandot_module.cpp">>,
                <<IncludeDir(tp)>>, "c")

\* lines 21-24: config.add_extension('kahandot', sources=[...], include_dirs=[...],
\* language='c++')
AddKahandot(c, tp) ==
  add_extension(c, "kahandot", <<"kahandot/kahandot_module.cpp">>,
                <<IncludeDir(tp)>>, "c++")

Store(h, r, obj) == IF r = Len(h) + 1 THEN Append(h, obj) ELSE [h EXCEPT ![r] = obj]

IsReturned(r) == r.status = "returned"

\* the calls that returned a descriptor
Returned == SelectSeq(calls, IsReturned)

\* an object no returned call refers to dies with the frame that held it
Release(h, r) ==
  IF r # NoRef /\ r = Len(h) /\ \A i \in 1..Len(calls) : calls[i].value # r
  THEN SubSeq(h, 1, Len(h) - 1) ELSE h

Outcome(status, op, value) ==
  [parent_package |-> parent_package, top_path |-> top_path,
   status |-> status, op |-> op, value |-> value]

-----------------------------------------------------------------------------
Init ==
  /\ pc = 0
  /\ parent_package = ""
  /\ top_path = None
  /\ config = NoRef
  /\ heap = <<>>
  /\ calls = <<>>

\* the build tool calls configuration(pp, tp)
Enter(pp, tp) ==
  /\ pc = 0
  /\ Len(calls) < MaxCalls
  /\ pc' = 1
  /\ parent_package' = pp
  /\ top_path' = tp
  /\ config' = NoRef
  /\ UNCHANGED <<heap, calls>>

Call == \E pp \in ParentPackages, tp \in TopPaths : Enter(pp, tp)

\* line 5
Import ==
  /\ pc # 0 /\ Body[pc].op = "import"
  /\ pc' = pc + 1
  /\ UNCHANGED <<parent_package, top_path, config, heap, calls>>

\* line 7
Construct ==
  /\ pc # 0 /\ Body[pc].op = "Configuration"
  /\ LET r == NewRef
     IN /\ config' = r
        /\ heap' = Store(heap, r, NewConfiguration(parent_package, top_path))
  /\ pc' = pc + 1
  /\ UNCHANGED <<parent_package, top_path, calls>>

\* lines 9-19
AddSubpackage ==
  /\ pc # 0 /\ Body[pc].op = "add_subpackage"
  /\ heap' = [heap EXCEPT ![config] = add_subpackage(@, Body[pc].arg)]
  /\ pc' = pc + 1
  /\ UNCHANGED <<parent_package, top_path, config, calls>>

\* lines 21-24, top_path a str
AddExtension ==
  /\ pc # 0 /\ Body[pc].op = "add_extension"
  /\ top_path.type = "str"
  /\ heap' = [heap EXCEPT ![config] = AddKahandot(@, top_path)]
  /\ pc' = pc + 1
  /\ UNCHANGED <<parent_package, top_path, config, calls>>

Raise(op) ==
  /\ calls' = Append(calls, Outcome("raised", op, NoRef))
  /\ heap' = Release(heap, config)
  /\ config' = NoRef
  /\ pc' = 0
  /\ UNCHANGED <<parent_package, top_path>>

\* line 23, top_path None: Path(None) raises TypeError while the arguments of
\* add_extension are evaluated
PathTypeError ==
  /\ pc # 0 /\ Body[pc].op = "add_extension"
  /\ top_path.type # "str"
  /\ Raise("Path")

\* lines 5-24: the import or a call into the build library raises
LibraryRaises ==
  /\ pc # 0 /\ Body[pc].op \in {"import", "Configuration", "add_subpackage", "add_extension"}
  /\ Body[pc].op = "add_extension" => top_path.type = "str"
  /\ Raise(Body[pc].op)

\* line 26
Return ==
  /\ pc # 0 /\ Body[pc].op = "return"
  /\ calls' = Append(calls, Outcome("returned", "return", config))
  /\ config' = NoRef
  /\ pc' = 0
  /\ UNCHANGED <<parent_package, top_path, heap>>

Next ==
  \/ Call
  \/ Import
  \/ Construct
  \/ AddSubpackage
  \/ AddExtension
  \/ PathTypeError
  \/ LibraryRaises
  \/ Return

Spec == Init /\ [][Next]_vars

\* The path-level specification: the first call takes any top_path of AllTopPaths,
\* later calls repeat it under any parent_package; the build library succeeds.
CallPath ==
  \E pp \in ParentPackages,
     tp \in (IF calls = <<>> THEN AllTopPaths ELSE {calls[1].top_path}) :
    Enter(pp, tp)

NextPath ==
  \/ CallPath
  \/ Import
  \/ Construct
  \/ AddSubpackage
  \/ AddExtension
  \/ PathTypeError
  \/ Return

SpecPath == Init /\ [][NextPath]_vars

-----------------------------------------------------------------------------
\* Properties

Desc(i) == heap[calls[i].value]

ReturnedCalls == {i \in 1..Len(calls) : IsReturned(calls[i])}

Elems(q) == {q[k] : k \in 1..Len(q)}

ExpectedSubpackages ==
  { <<"analysis">>, <<"analysis", "dense">>, <<"analysis", "sparse">>,
    <<"estimation">>,
    <<"flux">>, <<"flux", "dense">>, <<"flux", "sparse">>,
    <<"generation">> }

\* C1: whenever configuration() returns, the subpackage names registered on the
\* returned descriptor are exactly the eight expected names, each registered once.
C1_SubpackagesExact ==
  \A i \in ReturnedCalls :
    LET sp == Desc(i).subpackages
    IN /\ Elems(sp) = ExpectedSubpackages
       /\ Len(sp) = Cardinality(ExpectedSubpackages)
       /\ \A k, l \in 1..Len(sp) : sp[k] = sp[l] => k = l

\* C1 witness: a call under a dotted parent_package has returned its descriptor
C1_Witness ==
  \E i \in ReturnedCalls :
    /\ calls[i].parent_package = "sktime.markov"
    /\ Len(Desc(i).subpackages) > 0

ExpectedIncludeDir(tp) ==
  [root |-> ParseRoot(tp.chars),
   parts |-> ParseParts(tp.chars) \o << <<"sktime">>, <<"src">>, <<"include">> >>]

\* C2: whenever configuration() returns, the extension's include_dirs has exactly
\* one entry, the path top_path/sktime/src/include, and two calls with the same
\* top_path have the same entry whatever their parent_package.
C2_IncludeDirIsJoin ==
  /\ \A i \in ReturnedCalls :
       LET e == Desc(i).ext_modules
       IN /\ Len(e) >= 1
          /\ \A k \in 1..Len(e) :
               /\ Len(e[k].include_dirs) = 1
               /\ e[k].include_dirs[1] = ExpectedIncludeDir(calls[i].top_path)
  /\ \A i, j \in ReturnedCalls :
       calls[i].top_path = calls[j].top_path =>
         Desc(i).ext_modules[1].include_dirs = Desc(j).ext_modules[1].include_dirs

\* C2 witness: two calls with top_path './a', which Path() normalises, and different
\* parent_package have returned
C2_Witness ==
  \E i, j \in ReturnedCalls :
    /\ calls[i].top_path = Str(<<".", "/", "a">>)
    /\ calls[j].top_path = calls[i].top_path
    /\ calls[i].parent_package # calls[j].parent_package

LibraryOps == {"import", "Configuration", "add_subpackage", "add_extension"}

\* C4: every failure of a call originates in the build library, never in an
\* expression configuration() evaluates itself.
C4_FailuresFromLibrary ==
  \A i \in 1..Len(calls) :
    calls[i].status = "raised" => calls[i].op \in LibraryOps

\* C5: whenever configuration() returns, the descriptor has exactly one extension,
\* named kahandot, with the one source kahandot/kahandot_module.cpp and language c++.
C5_OneExtension ==
  \A i \in ReturnedCalls :
    LET e == Desc(i).ext_modules
    IN /\ Len(e) = 1
       /\ e[1].name = "kahandot"
       /\ e[1].sources = <<"kahandot/kahandot_module.cpp">>
       /\ e[1].language = "c++"

\* C5 witness: a call has returned a descriptor that carries an extension
C5_Witness ==
  \E i \in ReturnedCalls : \E k \in 1..Len(Desc(i).ext_modules) :
    Desc(i).ext_modules[k].name = "kahandot"

\* C6: a step of a call leaves the call's arguments, the outcomes of earlier calls
\* and every descriptor returned earlier unchanged; it writes only to the
\* descriptor created in this call, and a finished call keeps no other object.
C6_FrameEffect ==
  [][ /\ Len(calls') >= Len(calls)
      /\ \A i \in 1..Len(calls) : calls'[i] = calls[i]
      /\ \A i \in ReturnedCalls :
           /\ calls[i].value <= Len(heap')
           /\ heap'[calls[i].value] = heap[calls[i].value]
      /\ \A r \in 1..Len(heap) :
           r # config => (r <= Len(heap') /\ heap'[r] = heap[r])
      /\ pc # 0 => (parent_package' = parent_package /\ top_path' = top_path)
      /\ (pc # 0 /\ pc' = 0) =>
           /\ calls'[Len(calls')].parent_package = parent_package
           /\ calls'[Len(calls')].top_path = top_path
      /\ pc' = 0 => Len(heap') = Cardinality({i \in 1..Len(calls') : IsReturned(calls'[i])})
    ]_vars

\* C6 witness: a call is registering on its descriptor while an earlier call's
\* descriptor is held by the caller
C6_Witness ==
  /\ pc # 0
  /\ config # NoRef
  /\ Len(heap[config].subpackages) > 0
  /\ ReturnedCalls # {}

TopLevel(sp) == {n \in Elems(sp) : Len(n) = 1}

Nested(sp, parent) == {n[2] : n \in {m \in Elems(sp) : Len(m) = 2 /\ m[1] = parent}}

\* C7: the registered names are four top-level names plus nested names: every
\* nested name has its parent registered, analysis and flux have exactly dense and
\* sparse, estimation and generation have none.
C7_GroupStructure ==
  \A i \in ReturnedCalls :
    LET sp == Desc(i).subpackages
    IN /\ TopLevel(sp) = { <<"analysis">>, <<"estimation">>, <<"flux">>, <<"generation">> }
       /\ \A n \in Elems(sp) : Len(n) \in {1, 2}
       /\ \A n \in Elems(sp) : Len(n) = 2 => <<n[1]>> \in TopLevel(sp)
       /\ Nested(sp, "analysis") = {"dense", "sparse"}
       /\ Nested(sp, "flux") = {"dense", "sparse"}
       /\ Nested(sp, "estimation") = {}
       /\ Nested(sp, "generation") = {}

\* C7 witness: a returned descriptor holds a nested name and a childless top-level name
C7_Witness ==
  \E i \in ReturnedCalls :
    /\ <<"flux", "sparse">> \in Elems(Desc(i).subpackages)
    /\ <<"estimation">> \in Elems(Desc(i).subpackages)

\* C8: on every descriptor, a nested subpackage is registered after its parent, the
\* extension after all eight subpackages, and a descriptor is returned only with its
\* extension registered; a call that raised returned no descriptor.
C8_RegistrationOrder ==
  /\ \A r \in 1..Len(heap) :
       LET sp == heap[r].subpackages
       IN /\ \A k \in 1..Len(sp) :
               Len(sp[k]) = 2 => \E l \in 1..(k - 1) : sp[l] = <<sp[k][1]>>
          /\ heap[r].ext_modules # <<>> => ExpectedSubpackages \subseteq Elems(sp)
  /\ \A i \in ReturnedCalls :
       /\ calls[i].value # NoRef
       /\ Len(Desc(i).ext_modules) = 1
       /\ Desc(i).ext_modules[1].name = "kahandot"
  /\ \A i \in 1..Len(calls) :
       calls[i].status = "raised" => calls[i].value = NoRef
  /\ pc = 0 => Len(heap) = Cardinality(ReturnedCalls)

\* C8 witness: one call raised in a registration step and another returned
C8_Witness ==
  /\ \E i \in 1..Len(calls) :
       calls[i].status = "raised" /\ calls[i].op \in {"add_subpackage", "add_extension"}
  /\ ReturnedCalls # {}

\* C9: every descriptor is created with the name tools and the caller's
\* parent_package and top_path, and the include directory of its extension is derived
\* from the top_path the descriptor holds.
C9_ArgumentsPassedThrough ==
  /\ config # NoRef =>
       /\ heap[config].name = "tools"
       /\ heap[config].parent_name = parent_package
       /\ heap[config].top_path = top_path
  /\ \A i \in ReturnedCalls :
       /\ Desc(i).name = "tools"
       /\ Desc(i).parent_name = calls[i].parent_package
       /\ Desc(i).top_path = calls[i].top_path
  /\ \A r \in 1..Len(heap) : \A k \in 1..Len(heap[r].ext_modules) :
       /\ heap[r].top_path.type = "str"
       /\ \A m \in 1..Len(heap[r].ext_modules[k].include_dirs) :
            LET d == heap[r].ext_modules[k].include_dirs[m]
                n == Len(d.parts)
            IN /\ n >= 3
               /\ [root |-> d.root, parts |-> SubSeq(d.parts, 1, n - 3)]
                    = Path(heap[r].top_path)

\* C9 witness: a call with a dotted parent_package and an absolute top_path returned
C9_Witness ==
  \E i \in ReturnedCalls :
    /\ calls[i].parent_package = "sktime.markov"
    /\ calls[i].top_path = Str(<<"/", "a">>)
    /\ Desc(i).ext_modules # <<>>

====
